---- MODULE Spec2Model ----
(***************************************************************************)
(* Zakerah knowledge forge: the PayPal subscription handshake              *)
(* (create-paypal-subscription, paypal-webhook, the subscribers table) and *)
(* the knowledge store write path (process-knowledge storeKnowledge, the   *)
(* knowledge_scopes / knowledge_entries / embeddings tables).              *)
(*                                                                         *)
(* Storage calls on the subscribers table are taken to succeed: both       *)
(* functions await them without reading the returned error.  The PayPal    *)
(* credentials are taken to be configured.                                 *)
(***************************************************************************)
EXTENDS Integers, Sequences, FiniteSets, TLC

VARIABLES
  subscribers,   \* table subscribers: email -> row (emails without a row are not in the domain);
                 \* the columns the two functions read or compare: stripe_customer_id,
                 \* subscribed, subscription_tier, subscription_end
  paypalSubs,    \* number of subscriptions PayPal has created for the app with a link to
                 \* approve them; their ids are 1..paypalSubs, each requested by user u1
  resp,          \* the request answered last and its HTTP response
  ledger,        \* per email: the latest billing event processed for its row
  knowledge_scopes,   \* table knowledge_scopes: rows [id, user_id, name]
  knowledge_entries,  \* table knowledge_entries: rows [id, user_id, scope_id, content]
  embeddings,         \* table embeddings: rows [entry_id, user_id, content_chunk,
                      \* embedding, chunk_index]
  uuids,              \* number of row ids the database has generated
  reqs,               \* the process-knowledge POST requests: where each one is in
                      \* storeKnowledge, its locals and its response
  del,                \* the process-knowledge DELETE request being served, or served last
  chunked,            \* a content handed to the chunker of generateEmbeddings, and
                      \* the chunks it was split into
  search,             \* the chat-rag search served last: its user, the queries it
                      \* issued and the rows it returned
  createReq,          \* the create-paypal-subscription request observed last: whose
                      \* token it carried, the tier it asked for, the PayPal calls made
  brainstorm,         \* the generate-brainstorming request served last and its answer
  extracted,          \* a content handed to extractInsights whose reply did not
                      \* parse, and the insights returned for it
  chat                \* ChatPage: its state (messages, input, isLoading) and the
                      \* chat-rag calls in flight

subVars == <<subscribers, paypalSubs, resp, ledger>>
knVars == <<knowledge_scopes, knowledge_entries, embeddings, uuids, reqs, del>>
kbVars == <<chunked, search, createReq, brainstorm, extracted, chat>>
vars == <<subscribers, paypalSubs, resp, ledger,
          knowledge_scopes, knowledge_entries, embeddings, uuids, reqs, del,
          chunked, search, createReq, brainstorm, extracted, chat>>

-----------------------------------------------------------------------------
(* Bounds and input samples                                                *)

MaxSubs == 2
MaxReqs == 2
MaxRows == 3
MaxLen == 1001
MaxEntries == 9
MaxChars == 7
MaxSends == 3

Emails == {"a@x", "b@y"}
NoEmail == "NoEmail"
NULL == "NULL"

\* auth.getUser(token): the users a bearer token can resolve to.  u1 signed up
\* as a@x, u3 has no email; b@y is an address only a PayPal payer uses.
Users == {"u1", "u3"}

UserEmail(u) ==
  CASE u = "u1" -> "a@x"
    [] OTHER    -> NoEmail

\* resource.billing_info.next_billing_time as PayPal may write it
NoTime == "NoTime"
BillingTimes == {"2025-08-01T02:00:00+02:00", "2025-09-01T00:00:00Z"}

\* new Date(s).toISOString(): the instant in UTC with milliseconds
ToISOString(s) ==
  CASE s = "2025-08-01T02:00:00+02:00" -> "2025-08-01T00:00:00.000Z"
    [] s = "2025-09-01T00:00:00Z"      -> "2025-09-01T00:00:00.000Z"

\* resource.plan_id samples, as character sequences
PlanGenerated == <<"P","-","5","M","L","4","2">>
PlanLegacyPremium ==
  <<"z","a","k","e","r","a","h","-","p","r","e","m","i","u","m","-","m","o","n","t","h","l","y">>
PlanUpperPremium == <<"P","-","P","R","E","M","I","U","M">>
PlanIds == {PlanGenerated, PlanLegacyPremium, PlanUpperPremium}

premium == <<"p","r","e","m","i","u","m">>

\* process-knowledge request bodies: userId, the scope name the classifier
\* returns for the content, content.length
UserIds == {"u1", "u2"}
ScopeNames == {"General Knowledge", "Cooking"}
ContentLengths == {500, 501}

\* what the generative model does with the classifier prompt: a JSON reply
\* naming a scope, a reply that is not JSON, or a failed call
Replies == ScopeNames \cup {"unparseable", "network error"}

\* sample submissions: body.userId, content.length, the classifier's reply, the
\* outcome of the insights call, the chunks whose embedding call fails
Submissions ==
  {[userId |-> "u1", len |-> 501, reply |-> "Cooking", insights |-> "ok", mocked |-> {}],
   [userId |-> "u1", len |-> 500, reply |-> "unparseable", insights |-> "ok", mocked |-> {0}],
   [userId |-> "u2", len |-> 501, reply |-> "Cooking", insights |-> "ok", mocked |-> {0}],
   [userId |-> "u2", len |-> 500, reply |-> "General Knowledge", insights |-> "ok",
    mocked |-> {}],
   [userId |-> "u1", len |-> 500, reply |-> "network error", insights |-> "ok",
    mocked |-> {}],
   [userId |-> "u2", len |-> 501, reply |-> "Cooking", insights |-> "network error",
    mocked |-> {}]}

\* a request that has not arrived; 0 stands for a null scope / entry
NoId == 0
NoReq ==
  [pc |-> "idle", userId |-> "", reply |-> "", scopeAnalysis |-> "none", scope |-> "",
   len |-> 0, mocked |-> {}, found |-> "unread",
   scopeId |-> NoId, entryId |-> NoId, status |-> 0, error |-> "none"]

\* no create-paypal-subscription request yet
NoCreate == [auth |-> "none", tier |-> "none", calls |-> <<>>]

\* no generate-brainstorming request yet
NoBrainstorm == [userId |-> "", scopes |-> "unread", modelCalled |-> FALSE, answer |-> "none"]

\* no content has been handed to extractInsights
NoExtract == [pc |-> "idle", content |-> <<>>, insights |-> "none"]

\* ChatPage as mounted: the welcome message of the assistant, an empty input
\* ChatPage once mounted: the welcome message, an empty input, no call; last
\* is the event handled last
NoChat ==
  [messages |-> <<[role |-> "assistant", content |-> "welcome"]>>,
   inputMessage |-> <<>>, isLoading |-> FALSE, inFlight |-> <<>>, last |-> "none"]

\* no content has been handed to the chunker
NoChunks == [pc |-> "idle", content |-> 0, chunks |-> <<>>]

\* no search has been served
NoSearch ==
  [userId |-> "", query |-> <<>>, db |-> "none",
   tier1 |-> <<>>, tier2 |-> <<>>, results |-> <<>>, issued |-> <<>>,
   generation |-> "none", response |-> "none"]

\* no DELETE request yet; "" stands for a missing userId
NoDel == [pc |-> "idle", entryId |-> NoId, userId |-> "", status |-> 0]

\* String.prototype.startsWith in place of includes
StartsWith(s, t) == Len(s) >= Len(t) /\ SubSeq(s, 1, Len(t)) = t

\* String.prototype.includes
Includes(s, t) ==
  \E i \in 1..(Len(s) - Len(t) + 1) : SubSeq(s, i, i + Len(t) - 1) = t

EventTypes ==
  {"BILLING.SUBSCRIPTION.ACTIVATED", "BILLING.SUBSCRIPTION.CANCELLED",
   "BILLING.SUBSCRIPTION.SUSPENDED", "BILLING.SUBSCRIPTION.PAYMENT.FAILED",
   "BILLING.SUBSCRIPTION.RENEWED", "PAYMENT.SALE.COMPLETED"}

-----------------------------------------------------------------------------
(* The subscribers table                                                   *)

HasRow(e) == e \in DOMAIN subscribers

\* .insert in place of .upsert: a row that exists is left as it is
InsertIfAbsent(table, e, cols, fresh) ==
  IF e \in DOMAIN table THEN table ELSE table @@ (e :> fresh)

\* supabase .upsert(values, {onConflict: 'email'}): insert, or overwrite the given columns
Upsert(table, e, cols, fresh) ==
  IF e \in DOMAIN table
    THEN [table EXCEPT ![e] = [c \in DOMAIN @ |-> IF c \in DOMAIN cols THEN cols[c] ELSE @[c]]]
    ELSE table @@ (e :> fresh)

\* the update without its .eq filter: every row gets the columns
UpdateEveryRow(table, sid, cols) ==
  [e \in DOMAIN table |->
     [c \in DOMAIN table[e] |-> IF c \in DOMAIN cols THEN cols[c] ELSE table[e][c]]]

\* supabase .update(cols).eq('stripe_customer_id', sid)
UpdateWhereSub(table, sid, cols) ==
  [e \in DOMAIN table |->
     IF table[e].stripe_customer_id = sid
       THEN [c \in DOMAIN table[e] |-> IF c \in DOMAIN cols THEN cols[c] ELSE table[e][c]]
       ELSE table[e]]

Fresh ==
  /\ subscribers = <<>>
  /\ paypalSubs = 0
  /\ resp = [op |-> "none", status |-> 0, evt |-> "none", sid |-> 0, email |-> NoEmail]
  /\ ledger = [e \in Emails |-> "none"]
  /\ knowledge_scopes = {}
  /\ knowledge_entries = {}
  /\ embeddings = {}
  /\ uuids = 0
  /\ reqs = [r \in 1..MaxReqs |-> NoReq]
  /\ del = NoDel
  /\ search = NoSearch
  /\ createReq = NoCreate
  /\ brainstorm = NoBrainstorm
  /\ chat = NoChat

Started == Fresh /\ chunked = NoChunks

Init == Started /\ extracted = NoExtract

-----------------------------------------------------------------------------
(* create-paypal-subscription                                              *)

CreateOp == "create-paypal-subscription"

\* the catch block: every thrown error is answered 500
CreateFailed ==
  /\ resp' = [op |-> CreateOp, status |-> 500, evt |-> "error", sid |-> 0, email |-> NoEmail]
  /\ UNCHANGED <<subscribers, ledger>>

PendingRow(tier, sid) ==
  [stripe_customer_id |-> sid,
   subscribed |-> FALSE,
   subscription_tier |-> IF tier = "pro" THEN "Pro" ELSE "Premium",
   subscription_end |-> NULL]

Tiers == {"pro", "premium", "gold", "missing"}
FetchOutcomes == {"ok", "duplicate", "error"}

\* how PayPal answers the token, product, plan, plan-list and subscription
\* calls, and whether the subscription carries an approve link
PayPalOutcomes ==
  [token : {TRUE}, product : {"ok", "duplicate"}, plan : {"ok"}, existingPlan : {FALSE},
   subscription : {TRUE}, approve : BOOLEAN]
  \cup
  [token : {TRUE}, product : {"ok"}, plan : {"duplicate", "error"}, existingPlan : BOOLEAN,
   subscription : {TRUE}, approve : {TRUE}]
  \cup
  [token : BOOLEAN, product : FetchOutcomes, plan : {"ok"}, existingPlan : {FALSE},
   subscription : BOOLEAN, approve : {TRUE}]

\* a request that is refused before the first PayPal call is made
NotCalled ==
  [token : {FALSE}, product : {"error"}, plan : {"error"}, existingPlan : {FALSE},
   subscription : {FALSE}, approve : {FALSE}]

\* the tier of the request is not looked at
AuthorizedAnyTier(auth, tier) ==
  /\ auth \in Users
  /\ UserEmail(auth) # NoEmail

\* the authorization header, auth.getUser and the tier check let the request through
Authorized(auth, tier) ==
  /\ auth \in Users
  /\ UserEmail(auth) # NoEmail
  /\ tier \in {"pro", "premium"}

\* TRUE when no PayPal call makes the handler throw: the token is granted, the
\* product and the plan are created or found, the subscription is created and
\* its links hold one with rel 'approve'
PayPalSucceeds(p) ==
  /\ p.token
  /\ p.product # "error"
  /\ (p.plan = "ok" \/ (p.plan = "duplicate" /\ p.existingPlan))
  /\ p.subscription
  /\ p.approve

\* the PayPal endpoints fetched, in order, until one makes the handler throw
PayPalCalls(p) ==
  <<"oauth2/token">>
  \o (IF ~p.token THEN <<>> ELSE
       <<"catalogs/products">>
       \o (IF p.product = "error" THEN <<>> ELSE
            <<"billing/plans">>
            \o (IF p.plan = "ok" THEN <<"billing/subscriptions">>
                ELSE IF p.plan = "error" THEN <<>>
                ELSE <<"billing/plans?product_id">>
                     \o (IF p.existingPlan THEN <<"billing/subscriptions">> ELSE <<>>))))

Create(auth, tier, paypal) ==
  IF ~Authorized(auth, tier) \/ ~PayPalSucceeds(paypal)
    THEN CreateFailed /\ UNCHANGED paypalSubs
    ELSE LET sid == paypalSubs + 1 IN
         /\ paypalSubs < MaxSubs
         /\ paypalSubs' = sid
         /\ subscribers' = Upsert(subscribers, UserEmail(auth),
                                  PendingRow(tier, sid), PendingRow(tier, sid))
         /\ resp' = [op |-> CreateOp, status |-> 200, evt |-> tier,
                     sid |-> sid, email |-> UserEmail(auth)]
         /\ UNCHANGED ledger

CreatePaypalSubscription ==
  \E auth \in {"no_header", "rejected"} \cup Users, tier \in Tiers :
    \E paypal \in IF Authorized(auth, tier) THEN PayPalOutcomes ELSE NotCalled :
      Create(auth, tier, paypal)

\* create-paypal-subscription with the request it serves kept for
\* observation: its bearer token, its tier and the PayPal endpoints fetched
CreateRequest ==
  \E auth \in {"no_header", "rejected"} \cup Users, tier \in Tiers :
    \E paypal \in IF Authorized(auth, tier) THEN PayPalOutcomes ELSE NotCalled :
      /\ Create(auth, tier, paypal)
      /\ createReq' = [auth |-> auth, tier |-> tier,
                       calls |-> IF Authorized(auth, tier) THEN PayPalCalls(paypal)
                                 ELSE <<>>]
      /\ UNCHANGED <<knVars, chunked, search, brainstorm, extracted, chat>>

CreateNext == CreateRequest

CreateSpec == Init /\ [][CreateNext]_vars

-----------------------------------------------------------------------------
(* paypal-webhook                                                          *)

WebhookOp == "paypal-webhook"

ACTIVATED == "BILLING.SUBSCRIPTION.ACTIVATED"
CANCELLED == "BILLING.SUBSCRIPTION.CANCELLED"
SUSPENDED == "BILLING.SUBSCRIPTION.SUSPENDED"
PAYMENT_FAILED == "BILLING.SUBSCRIPTION.PAYMENT.FAILED"
RENEWED == "BILLING.SUBSCRIPTION.RENEWED"

\* webhook payloads PayPal can deliver for the subscriptions it holds
Events ==
  [type : {ACTIVATED}, id : 1..paypalSubs, email : Emails \cup {NoEmail},
   plan_id : PlanIds, next_billing_time : BillingTimes \cup {NoTime}]
  \cup
  [type : {RENEWED}, id : 1..paypalSubs, email : {NoEmail},
   plan_id : {PlanGenerated}, next_billing_time : BillingTimes \cup {NoTime}]
  \cup
  [type : EventTypes \ {ACTIVATED, RENEWED}, id : 1..paypalSubs, email : {NoEmail},
   plan_id : {PlanGenerated}, next_billing_time : {NoTime}]

SubscriptionEnd(resource) ==
  IF resource.next_billing_time # NoTime
    THEN ToISOString(resource.next_billing_time)
    ELSE NULL

ActivatedCols(resource) ==
  [stripe_customer_id |-> resource.id,
   subscribed |-> TRUE,
   subscription_tier |-> IF Includes(resource.plan_id, premium) THEN "Premium" ELSE "Pro",
   subscription_end |-> SubscriptionEnd(resource)]

handleSubscriptionActivated(resource) ==
  IF resource.email = NoEmail
    THEN UNCHANGED subscribers
    ELSE subscribers' = Upsert(subscribers, resource.email, ActivatedCols(resource),
                               ActivatedCols(resource))

\* the update leaves out subscribed: false
handleSubscriptionCancelledKeepsFlag(resource) ==
  subscribers' = UpdateWhereSub(subscribers, resource.id,
                   [subscription_tier |-> NULL, subscription_end |-> NULL])

\* the update leaves out subscription_tier: null
handleSubscriptionCancelledKeepsTier(resource) ==
  subscribers' = UpdateWhereSub(subscribers, resource.id,
                   [subscribed |-> FALSE, subscription_end |-> NULL])

handleSubscriptionCancelled(resource) ==
  subscribers' = UpdateWhereSub(subscribers, resource.id,
                   [subscribed |-> FALSE, subscription_tier |-> NULL, subscription_end |-> NULL])

\* a payment failure handled like a suspension
handlePaymentFailedSuspends(resource) ==
  subscribers' = UpdateWhereSub(subscribers, resource.id, [subscribed |-> FALSE])

handlePaymentFailed(resource) ==
  UNCHANGED subscribers

\* the update also writes the default tier, as the activation does
handleSubscriptionRenewedSetsTier(resource) ==
  subscribers' = UpdateWhereSub(subscribers, resource.id,
                   [subscribed |-> TRUE, subscription_tier |-> "Pro",
                    subscription_end |-> SubscriptionEnd(resource)])

handleSubscriptionRenewed(resource) ==
  subscribers' = UpdateWhereSub(subscribers, resource.id,
                   [subscribed |-> TRUE, subscription_end |-> SubscriptionEnd(resource)])

\* the rows that store subscription id sid
RowsOf(sid) == {e \in DOMAIN subscribers : subscribers[e].stripe_customer_id = sid}

\* the event switch
Dispatch(data) ==
  CASE data.type = ACTIVATED -> handleSubscriptionActivated(data)
    [] data.type \in {CANCELLED, SUSPENDED} -> handleSubscriptionCancelled(data)
    [] data.type = PAYMENT_FAILED -> handlePaymentFailed(data)
    [] data.type = RENEWED -> handleSubscriptionRenewed(data)
    [] OTHER -> UNCHANGED subscribers

\* History: the billing event processed last for each email's row.  An
\* ACTIVATED event is for the row of the email it carries; CANCELLED,
\* SUSPENDED and RENEWED events are for the rows that store their subscription id.
Ledger(data) ==
  [e \in Emails |->
     CASE data.type = ACTIVATED /\ data.email = e -> "on"
       [] data.type = RENEWED /\ e \in RowsOf(data.id) -> "on"
       [] data.type \in {CANCELLED, SUSPENDED} /\ e \in RowsOf(data.id) -> "off"
       [] OTHER -> ledger[e]]

\* what the two verification fetches can answer
\* PAYPAL_WEBHOOK_ID unset, or what the two verification fetches answer
TrustOutcomes == {"no_webhook_id", "token_not_ok", "verify_not_ok", "FAILURE", "SUCCESS"}

\* TRUE when the handler returns 400 before the event switch
Rejects(trust) == trust = "FAILURE"

WebhookResponse(status, data) ==
  [op |-> WebhookOp, status |-> status, evt |-> data.type, sid |-> data.id, email |-> data.email]

\* 'Webhook verification failed', status 400
Rejected(data) ==
  /\ resp' = WebhookResponse(400, data)
  /\ UNCHANGED <<subscribers, ledger, paypalSubs>>

\* the event switch, then 'Webhook processed', status 200
Accepted(data) ==
  /\ Dispatch(data)
  /\ ledger' = Ledger(data)
  /\ resp' = WebhookResponse(200, data)
  /\ UNCHANGED paypalSubs

Webhook(trust, data) ==
  IF Rejects(trust) THEN Rejected(data) ELSE Accepted(data)

\* one step per payload and per result of the trust check: the same steps as
\* \E trust \in TrustOutcomes, data \in Events : Webhook(trust, data)
PaypalWebhook ==
  \E data \in Events :
    \/ {trust \in TrustOutcomes : Rejects(trust)} # {} /\ Rejected(data)
    \/ {trust \in TrustOutcomes : ~Rejects(trust)} # {} /\ Accepted(data)

SubNext ==
  \/ CreatePaypalSubscription /\ UNCHANGED <<knVars, kbVars>>
  \/ PaypalWebhook /\ UNCHANGED <<knVars, kbVars>>

Spec == Init /\ [][SubNext]_vars

-----------------------------------------------------------------------------
(* process-knowledge POST: storeKnowledge, one step per awaited storage call *)

chunkSize == 500

\* generateEmbeddings: one chunk per chunkSize characters started
Chunks(len) == (len + chunkSize - 1) \div chunkSize

\* the constraint lets every insert through
NoUniqueConstraint(table, userId, name) == FALSE

\* UNIQUE(user_id, name) on knowledge_scopes: the insert collides with a row
UniqueViolation(table, userId, name) ==
  \E s \in table : s.user_id = userId /\ s.name = name

\* the select filters on the name only
MatchingScopesAnyUser(userId, name) ==
  {s \in knowledge_scopes : s.name = name}

\* .from('knowledge_scopes').select('id').eq('user_id', ..).eq('name', ..)
MatchingScopes(userId, name) ==
  {s \in knowledge_scopes : s.user_id = userId /\ s.name = name}

\* .single(): the row when exactly one matches, null data otherwise
SingleId(rows) ==
  IF Cardinality(rows) = 1 THEN (CHOOSE s \in rows : TRUE).id ELSE NoId

\* the error is lost and the request is answered with success
ThrowAnswersSuccess(r, message) ==
  reqs' = [reqs EXCEPT ![r] = [@ EXCEPT !.pc = "done", !.status = 200]]

\* a thrown error reaches the catch of the handler: 500 with the error's message
Throw(r, message) ==
  reqs' = [reqs EXCEPT ![r] = [@ EXCEPT !.pc = "done", !.status = 500, !.error = message]]

\* substring without the clamp at the end of the content
SubstringUnclamped(len, from, to) == <<from, to>>

\* content.substring(from, to) of a content of len characters, as the pair of
\* the first position taken and the position after the last one taken
Substring(len, from, to) ==
  <<IF from < len THEN from ELSE len, IF to < len THEN to ELSE len>>

\* for (let i = 0; i < content.length; i += chunkSize) chunks.push(...)
RECURSIVE ChunkLoop(_, _)
ChunkLoop(len, i) ==
  IF i < len
    THEN <<Substring(len, i, i + chunkSize)>> \o ChunkLoop(len, i + chunkSize)
    ELSE <<>>

\* the chunker of generateEmbeddings applied to a content
Chunk ==
  /\ chunked.pc = "content"
  /\ chunked' = [chunked EXCEPT !.pc = "chunked", !.chunks = ChunkLoop(chunked.content, 0)]
  /\ UNCHANGED <<knVars, subVars, search, createReq, brainstorm, extracted, chat>>

\* the chunker alone, on every content of up to MaxLen characters
ChunkInit ==
  /\ Fresh /\ extracted = NoExtract
  /\ chunked \in {[NoChunks EXCEPT !.pc = "content", !.content = n] : n \in 0..MaxLen}

ChunkNext == Chunk

ChunkSpec == ChunkInit /\ [][ChunkNext]_vars

EmbeddingLength == 768

\* generateEmbeddings leaving out the chunks whose embedding call fails
generateEmbeddingsDroppingFailed(len, mocked) ==
  LET chunks == ChunkLoop(len, 0)
      all == [k \in 1..Len(chunks) |->
                [chunk |-> chunks[k], index |-> k - 1,
                 embedding |-> [by |-> "model", length |-> EmbeddingLength]]]
  IN SelectSeq(all, LAMBDA e : e.index \notin mocked)

\* generateEmbeddings: one {chunk, index, embedding} per chunk; a chunk whose
\* embedding call fails gets the mock vector
generateEmbeddings(len, mocked) ==
  LET chunks == ChunkLoop(len, 0)
  IN [k \in 1..Len(chunks) |->
        [chunk |-> chunks[k], index |-> k - 1,
         embedding |-> [by |-> IF (k - 1) \in mocked THEN "Math.random" ELSE "model",
                        length |-> EmbeddingLength]]]

\* the classifier call never rejects
NeverThrows(reply) == FALSE

\* the classifier call rejects: the caller's catch is the handler's
Throws(reply) == reply = "network error"

\* analyzeContentScope, given the text the model replied with
analyzeContentScope(reply) ==
  IF reply = "unparseable"
    THEN [scope |-> "General Knowledge", confidence |-> "0.5",
          reasoning |-> "AI analysis failed, using default category"]
    ELSE [scope |-> reply, confidence |-> "from reply", reasoning |-> "from reply"]

\* the request arrives with submission s; title, scope analysis, insights and
\* embeddings are computed by the generative model
Post(r, s) ==
  /\ reqs' = [reqs EXCEPT ![r] =
                IF Throws(s.reply)
                  THEN [NoReq EXCEPT !.pc = "done", !.userId = s.userId, !.len = s.len,
                                     !.reply = s.reply,
                                     !.status = 500, !.error = "model call failed"]
                ELSE IF s.insights = "network error"
                  THEN [NoReq EXCEPT !.pc = "done", !.userId = s.userId, !.len = s.len,
                                     !.reply = s.reply,
                                     !.scopeAnalysis = analyzeContentScope(s.reply),
                                     !.status = 500, !.error = "model call failed"]
                  ELSE [NoReq EXCEPT !.pc = "select", !.userId = s.userId,
                                 !.reply = s.reply,
                                 !.scopeAnalysis = analyzeContentScope(s.reply),
                                 !.scope = analyzeContentScope(s.reply).scope,
                                 !.len = s.len, !.mocked = s.mocked]]
  /\ UNCHANGED <<knowledge_scopes, knowledge_entries, embeddings, uuids, del, subVars, kbVars>>

Submit(r) ==
  /\ reqs[r].pc = "idle"
  /\ \A q \in 1..(r - 1) : reqs[q].pc # "idle"
  /\ \E s \in Submissions : Post(r, s)

\* "Ensure scope exists": the select, whose error is not read
SelectScope(r) ==
  /\ reqs[r].pc = "select"
  /\ \E db \in {"ok", "error"} :
       LET scope == IF db = "ok"
                      THEN SingleId(MatchingScopes(reqs[r].userId, reqs[r].scope))
                      ELSE NoId
       IN reqs' = [reqs EXCEPT ![r] =
                     [@ EXCEPT !.scopeId = scope,
                               !.found = IF db = "error" THEN "error"
                                         ELSE IF scope = NoId THEN "none" ELSE "row",
                               !.pc = IF scope = NoId THEN "insertScope" ELSE "insertEntry"]]
  /\ UNCHANGED <<knowledge_scopes, knowledge_entries, embeddings, uuids, del, subVars, kbVars>>

\* if (!scope): insert the scope and take the id of the new row
InsertScope(r) ==
  /\ reqs[r].pc = "insertScope"
  /\ \E db \in {"ok", "error"} :
       IF db = "error" THEN
         /\ Throw(r, "scope insert failed")
         /\ UNCHANGED <<knowledge_scopes, uuids>>
       ELSE IF UniqueViolation(knowledge_scopes, reqs[r].userId, reqs[r].scope) THEN
         /\ Throw(r, "duplicate key value violates unique constraint")
         /\ UNCHANGED <<knowledge_scopes, uuids>>
       ELSE
         /\ uuids' = uuids + 1
         /\ knowledge_scopes' = knowledge_scopes \cup
              {[id |-> uuids + 1, user_id |-> reqs[r].userId, name |-> reqs[r].scope]}
         /\ reqs' = [reqs EXCEPT ![r] = [@ EXCEPT !.scopeId = uuids + 1,
                                                   !.pc = "insertEntry"]]
  /\ UNCHANGED <<knowledge_entries, embeddings, del, subVars, kbVars>>

\* REFERENCES ... (id): the referenced row is not in the table
ForeignKeyViolation(table, id) == \A row \in table : row.id # id

\* insert the knowledge entry under scope.id
InsertEntry(r) ==
  /\ reqs[r].pc = "insertEntry"
  /\ \E db \in {"ok", "error"} :
       IF db = "error" THEN
         /\ Throw(r, "entry insert failed")
         /\ UNCHANGED <<knowledge_entries, uuids>>
       ELSE IF ForeignKeyViolation(knowledge_scopes, reqs[r].scopeId) THEN
         /\ Throw(r, "violates foreign key constraint")
         /\ UNCHANGED <<knowledge_entries, uuids>>
       ELSE
         /\ uuids' = uuids + 1
         /\ knowledge_entries' = knowledge_entries \cup
              {[id |-> uuids + 1, user_id |-> reqs[r].userId,
                scope_id |-> reqs[r].scopeId, content |-> reqs[r].len]}
         /\ reqs' = [reqs EXCEPT ![r] = [@ EXCEPT !.entryId = uuids + 1,
                                                   !.pc = "insertEmbeddings"]]
  /\ UNCHANGED <<knowledge_scopes, embeddings, del, subVars, kbVars>>

\* embeddingInserts numbering the chunks from 1
EmbeddingInsertsFromOne(entryId, userId, embs) ==
  {[entry_id |-> entryId, user_id |-> userId, content_chunk |-> embs[k].chunk,
    embedding |-> embs[k].embedding, chunk_index |-> k] : k \in 1..Len(embs)}

\* embeddingInserts: one row per element of embeddings
EmbeddingInserts(entryId, userId, embs) ==
  {[entry_id |-> entryId, user_id |-> userId, content_chunk |-> embs[k].chunk,
    embedding |-> embs[k].embedding, chunk_index |-> embs[k].index] : k \in 1..Len(embs)}

\* insert one embeddings row per chunk, then answer {success: true}
InsertEmbeddings(r) ==
  /\ reqs[r].pc = "insertEmbeddings"
  /\ \E db \in {"ok", "error"} :
       IF db = "error" THEN
         /\ Throw(r, "embeddings insert failed")
         /\ UNCHANGED embeddings
       ELSE IF ForeignKeyViolation(knowledge_entries, reqs[r].entryId) THEN
         /\ Throw(r, "violates foreign key constraint")
         /\ UNCHANGED embeddings
       ELSE
         /\ embeddings' = embeddings \cup
              EmbeddingInserts(reqs[r].entryId, reqs[r].userId,
                               generateEmbeddings(reqs[r].len, reqs[r].mocked))
         /\ reqs' = [reqs EXCEPT ![r] = [@ EXCEPT !.pc = "done", !.status = 200]]
  /\ UNCHANGED <<knowledge_scopes, knowledge_entries, uuids, del, subVars, kbVars>>

-----------------------------------------------------------------------------
(* process-knowledge DELETE, one step per awaited storage call             *)

\* the entry delete leaves the embeddings table alone
NoCascade(rows, gone) == rows

\* entry_id ... ON DELETE CASCADE: the embeddings rows of deleted entries go too
Cascade(rows, gone) == {e \in rows : \A k \in gone : e.entry_id # k.id}

\* the request arrives: { entryId, userId } = await req.json(); the ids sent
\* are those of stored entries, or none
DeleteRequest ==
  /\ del.pc \in {"idle", "done"}
  /\ \E entryId \in {NoId} \cup {k.id : k \in knowledge_entries},
        userId \in UserIds \cup {""} :
       del' = IF entryId = NoId \/ userId = ""
                THEN [pc |-> "done", entryId |-> entryId, userId |-> userId, status |-> 400]
                ELSE [pc |-> "deleteEmbeddings", entryId |-> entryId, userId |-> userId,
                      status |-> 0]
  /\ UNCHANGED <<knowledge_scopes, knowledge_entries, embeddings, uuids, reqs, subVars, kbVars>>

\* "Delete embeddings first": the result of the call is not read
DeleteEmbeddings ==
  /\ del.pc = "deleteEmbeddings"
  /\ \E db \in {"ok", "error"} :
       embeddings' = IF db = "ok"
                       THEN {e \in embeddings :
                               ~(e.entry_id = del.entryId /\ e.user_id = del.userId)}
                       ELSE embeddings
  /\ del' = [del EXCEPT !.pc = "deleteEntry"]
  /\ UNCHANGED <<knowledge_scopes, knowledge_entries, uuids, reqs, subVars, kbVars>>

\* "Delete the knowledge entry", then answer {success: true}
DeleteEntry ==
  /\ del.pc = "deleteEntry"
  /\ \E db \in {"ok", "error"} :
       IF db = "error" THEN
         /\ del' = [del EXCEPT !.pc = "done", !.status = 500]
         /\ UNCHANGED <<knowledge_entries, embeddings>>
       ELSE
         LET gone == {k \in knowledge_entries :
                        k.id = del.entryId /\ k.user_id = del.userId}
         IN /\ knowledge_entries' = knowledge_entries \ gone
            /\ embeddings' = Cascade(embeddings, gone)
            /\ del' = [del EXCEPT !.pc = "done", !.status = 200]
  /\ UNCHANGED <<knowledge_scopes, uuids, reqs, subVars, kbVars>>

-----------------------------------------------------------------------------

\* POST requests served at the same time: their storage calls interleave
ConcNext ==
  \/ \E r \in 1..MaxReqs : Submit(r)
  \/ \E r \in 1..MaxReqs : SelectScope(r)
  \/ \E r \in 1..MaxReqs : InsertScope(r)
  \/ \E r \in 1..MaxReqs : InsertEntry(r)
  \/ \E r \in 1..MaxReqs : InsertEmbeddings(r)

ConcSpec == Init /\ [][ConcNext]_vars

\* no other request is being served
Quiet(r) == \A q \in (1..MaxReqs) \ {r} : reqs[q].pc \in {"idle", "done"}

\* POST requests served one after another
SeqNext ==
  \/ \E r \in 1..MaxReqs : Quiet(r) /\ Submit(r)
  \/ \E r \in 1..MaxReqs : Quiet(r) /\ SelectScope(r)
  \/ \E r \in 1..MaxReqs : Quiet(r) /\ InsertScope(r)
  \/ \E r \in 1..MaxReqs : Quiet(r) /\ InsertEntry(r)
  \/ \E r \in 1..MaxReqs : Quiet(r) /\ InsertEmbeddings(r)

SeqSpec == Init /\ [][SeqNext]_vars

\* the next POST request arrives once the one before it has been answered
SubmitNext ==
  /\ reqs[1].pc \in {"idle", "done"}
  /\ uuids < MaxRows
  /\ \E s \in Submissions : Post(1, s)

\* POST requests one after another (reqs[1] holds the latest), each
\* interleaved with the storage calls of DELETE requests
StoreNext ==
  \/ SubmitNext
  \/ SelectScope(1)
  \/ InsertScope(1)
  \/ InsertEntry(1)
  \/ InsertEmbeddings(1)
  \/ DeleteRequest
  \/ DeleteEmbeddings
  \/ DeleteEntry

StoreSpec == Init /\ [][StoreNext]_vars

-----------------------------------------------------------------------------
(* generate-brainstorming over the knowledge tables                        *)

\* the handler: the scopes of the user are read (each with its entries
\* embedded); without data or without a scope the fixed message is answered,
\* otherwise generateBrainstormingIdeas calls the generative model, whose
\* failure is answered with the fallback ideas
GenerateBrainstorming ==
  /\ \E userId \in UserIds, db \in {"ok", "error"}, generation \in {"ideas", "error"} :
       LET userKnowledge == {t \in knowledge_scopes : t.user_id = userId}
           none == db = "error" \/ userKnowledge = {}
       IN /\ none => generation = "ideas"
          /\ brainstorm' =
               [userId |-> userId,
                scopes |-> IF db = "error" THEN "null" ELSE {t.name : t \in userKnowledge},
                modelCalled |-> ~none,
                answer |-> IF none THEN "ideas: [], message"
                           ELSE IF generation = "ideas" THEN "ideas" ELSE "fallback ideas"]
  /\ UNCHANGED <<knVars, subVars, chunked, search, createReq, extracted, chat>>

\* POST and DELETE requests, then one generate-brainstorming request: it
\* changes no table, so the requests after it would repeat those before it
BrainstormNext ==
  \/ brainstorm = NoBrainstorm /\ StoreNext
  \/ brainstorm = NoBrainstorm /\ GenerateBrainstorming

BrainstormSpec == Init /\ [][BrainstormNext]_vars

-----------------------------------------------------------------------------
(* chat-rag: searchKnowledgeBase over the knowledge tables                 *)

match_count == 15

\* the keyword query is added whatever the vector search returned
FewResultsBeyondCount == match_count + 1

FewResults == 5
MaxKeywords == 3
TextLimit == 10

\* the recent-entries query without its limit
NoRecentLimit == Cardinality(knowledge_entries) + 1

RecentLimit == 8

\* the first n elements of a sequence: LIMIT n, Array.prototype.slice(0, n)
Take(seq, n) == SubSeq(seq, 1, IF n < Len(seq) THEN n ELSE Len(seq))

\* embeddings rows in the order of (entry_id, chunk_index)
RECURSIVE ByChunk(_)
ByChunk(rows) ==
  IF rows = {} THEN <<>>
  ELSE LET first == CHOOSE e \in rows : \A f \in rows \ {e} :
                      \/ e.entry_id < f.entry_id
                      \/ e.entry_id = f.entry_id /\ e.chunk_index < f.chunk_index
       IN <<first>> \o ByChunk(rows \ {first})

\* knowledge_entries rows, oldest first: created_at defaults to now() and ids
\* are handed out in the order of the inserts
RECURSIVE OldestFirst(_)
OldestFirst(rows) ==
  IF rows = {} THEN <<>>
  ELSE LET first == CHOOSE k \in rows : \A m \in rows \ {k} : k.id < m.id
       IN <<first>> \o OldestFirst(rows \ {first})

\* .order('created_at', { ascending: false })
NewestFirst(rows) ==
  LET up == OldestFirst(rows) IN [i \in 1..Len(up) |-> up[Len(up) + 1 - i]]

\* the name of the scope row an entry is joined with, none when it is missing
ScopeNamesOf(k) == {t.name : t \in {u \in knowledge_scopes : u.id = k.scope_id}}

\* the function without its user_id condition
match_knowledge_embeddingsAnyUser(similar, count, user_id) ==
  LET joined == {e \in similar :
                   \E k \in knowledge_entries : k.id = e.entry_id /\ ScopeNamesOf(k) # {}}
      ranked == ByChunk(joined)
  IN Take([i \in 1..Len(ranked) |->
             [id |-> <<ranked[i].entry_id, ranked[i].chunk_index>>,
              content_chunk |-> ranked[i].content_chunk,
              similarity |-> "above 0.4",
              entry_id |-> ranked[i].entry_id,
              scope_name |-> CHOOSE n \in UNION {ScopeNamesOf(k) :
                               k \in {m \in knowledge_entries : m.id = ranked[i].entry_id}} : TRUE]],
          count)

\* match_knowledge_embeddings(query_embedding, 0.4, count, user_id); similar is
\* the set of embeddings rows whose similarity to the query exceeds the
\* threshold, and the order of similarity is taken to be that of ByChunk
match_knowledge_embeddings(similar, count, user_id) ==
  LET joined == {e \in similar :
                   /\ e.user_id = user_id
                   /\ \E k \in knowledge_entries : k.id = e.entry_id /\ ScopeNamesOf(k) # {}}
      ranked == ByChunk(joined)
  IN Take([i \in 1..Len(ranked) |->
             [id |-> <<ranked[i].entry_id, ranked[i].chunk_index>>,
              content_chunk |-> ranked[i].content_chunk,
              similarity |-> "above 0.4",
              entry_id |-> ranked[i].entry_id,
              scope_name |-> CHOOSE n \in UNION {ScopeNamesOf(k) :
                               k \in {m \in knowledge_entries : m.id = ranked[i].entry_id}} : TRUE]],
          count)

\* a knowledge_entries row in the format of the vector search
Formatted(item, similarity) ==
  [id |-> <<item.id>>,
   content_chunk |-> Substring(item.content, 0, chunkSize),
   similarity |-> similarity,
   entry_id |-> item.id,
   scope_name |-> IF ScopeNamesOf(item) = {} THEN "Unknown"
                  ELSE CHOOSE n \in ScopeNamesOf(item) : TRUE]

\* the words of the query longer than two characters, at most three of them
RECURSIVE LongWords(_)
LongWords(words) ==
  IF words = <<>> THEN <<>>
  ELSE (IF Head(words).length > 2 THEN <<Head(words)>> ELSE <<>>) \o LongWords(Tail(words))

SearchTerms(query) == Take(LongWords(query), MaxKeywords)

\* the keyword query: the user's entries among those the pattern matches,
\* joined with their scope (inner), at most limit of them
TextSearch(userId, matching, limit) ==
  LET rows == OldestFirst({k \in matching : k.user_id = userId /\ ScopeNamesOf(k) # {}})
  IN Take([i \in 1..Len(rows) |-> Formatted(rows[i], "0.3")], limit)

\* the recent-entries query
RecentEntries(userId) ==
  LET rows == Take(NewestFirst({k \in knowledge_entries : k.user_id = userId}), RecentLimit)
  IN [i \in 1..Len(rows) |-> Formatted(rows[i], "0.2")]

\* searchKnowledgeBase(userId, queryEmbedding, originalQuery).  db holds what
\* the database answers: similar (the rows the vector comparison lets through),
\* matching (the entries the keyword pattern matches) and, per query, whether
\* it returns data.  The result and the queries issued, in order.
searchKnowledgeBase(userId, query, db) ==
  LET vectorData == IF db.vector = "ok"
                      THEN match_knowledge_embeddings(db.similar, match_count, userId)
                      ELSE <<>>
      textIssued == Len(vectorData) < FewResults /\ SearchTerms(query) # <<>>
      textData == IF textIssued /\ db.text = "ok"
                    THEN TextSearch(userId, db.matching, TextLimit - Len(vectorData))
                    ELSE <<>>
      results == vectorData \o textData
      recentIssued == results = <<>>
  IN [tier1 |-> vectorData,
      tier2 |-> textData,
      results |-> IF recentIssued /\ db.recent = "ok" THEN RecentEntries(userId) ELSE results,
      issued |-> <<"match_knowledge_embeddings">>
                 \o (IF textIssued THEN <<"keywords">> ELSE <<>>)
                 \o (IF recentIssued THEN <<"recent entries">> ELSE <<>>)]

\* sample queries, as the words \s+ splits them into
Queries ==
  {<<[word |-> "ai", length |-> 2]>>,
   <<[word |-> "how", length |-> 3], [word |-> "to", length |-> 2],
     [word |-> "cook", length |-> 4], [word |-> "rice", length |-> 4],
     [word |-> "quickly", length |-> 7]>>}

\* what the database answers to the queries of one search: the embeddings rows
\* above the threshold are all the rows, the first chunk of every entry, the
\* rows of the oldest entries, or none; the keyword pattern matches every
\* entry or none; a query may fail
DbAnswers ==
  {[similar |-> {e \in embeddings : e.entry_id <= 3}, matching |-> knowledge_entries,
    vector |-> "ok", text |-> "ok", recent |-> "ok"]} \cup
  {[similar |-> embeddings, matching |-> knowledge_entries,
    vector |-> "ok", text |-> "ok", recent |-> "ok"],
   [similar |-> {e \in embeddings : e.chunk_index = 0}, matching |-> knowledge_entries,
    vector |-> "ok", text |-> "ok", recent |-> "ok"],
   [similar |-> {}, matching |-> knowledge_entries,
    vector |-> "ok", text |-> "ok", recent |-> "ok"],
   [similar |-> {}, matching |-> {},
    vector |-> "ok", text |-> "ok", recent |-> "ok"],
   [similar |-> embeddings, matching |-> knowledge_entries,
    vector |-> "error", text |-> "ok", recent |-> "ok"],
   [similar |-> {}, matching |-> knowledge_entries,
    vector |-> "ok", text |-> "error", recent |-> "ok"],
   [similar |-> {}, matching |-> {},
    vector |-> "ok", text |-> "ok", recent |-> "error"]}

\* the two fixed answers of generateRAGResponse
NothingFound ==
  "I couldn't find relevant information in your knowledge base to answer that question. Try adding more content related to this topic to get better answers!"
TroubleProcessing ==
  "I found some relevant information but had trouble processing it. Could you try rephrasing your question?"

\* generateRAGResponse answering 0.8 whatever was retrieved
generateRAGResponseSure(generation, relevantContent) ==
  [content |-> IF generation = "text" THEN "response.text()" ELSE TroubleProcessing,
   confidence |-> "0.8"]

\* generateRAGResponse(query, relevantContent); generation is what the call
\* to the generative model gives: the text of its answer, or an error
generateRAGResponse(generation, relevantContent) ==
  IF generation = "text"
    THEN [content |-> "response.text()",
          confidence |-> IF Len(relevantContent) > 0 THEN "0.8" ELSE "0.3"]
  ELSE IF Len(relevantContent) = 0
    THEN [content |-> NothingFound, confidence |-> "0.1"]
    ELSE [content |-> TroubleProcessing, confidence |-> "0.2"]

\* chat-rag serves the message query of userId: the search, then the answer
\* generated from the rows found
Search ==
  /\ \E userId \in UserIds, query \in Queries, db \in DbAnswers,
        generation \in {"text", "error"} :
       LET found == searchKnowledgeBase(userId, query, db)
       IN search' = [userId |-> userId, query |-> query, db |-> db,
                     tier1 |-> found.tier1, tier2 |-> found.tier2,
                     results |-> found.results, issued |-> found.issued,
                     generation |-> generation,
                     response |-> generateRAGResponse(generation, found.results)]
  /\ UNCHANGED <<knVars, subVars, chunked, createReq, brainstorm, extracted, chat>>

\* the submissions that fill the knowledge base before it is searched
KbSubmissions ==
  {[userId |-> "u1", len |-> 501, reply |-> "Cooking", insights |-> "ok", mocked |-> {}],
   [userId |-> "u2", len |-> 500, reply |-> "General Knowledge", insights |-> "ok",
    mocked |-> {}]}

\* a whole POST of submission s, every call of it succeeding: the scope is
\* found or inserted, then the entry and its embeddings rows are inserted
Store(s) ==
  LET scopeAnalysis == analyzeContentScope(s.reply)
      scope == SingleId(MatchingScopes(s.userId, scopeAnalysis.scope))
      scopeId == IF scope = NoId THEN uuids + 1 ELSE scope
      entryId == scopeId + (IF scope = NoId THEN 1 ELSE uuids + 1 - scope)
  IN /\ Cardinality(knowledge_entries) < MaxEntries
     /\ ~Throws(s.reply) /\ s.insights = "ok"
     /\ knowledge_scopes' = IF scope # NoId THEN knowledge_scopes
                             ELSE knowledge_scopes \cup
                                    {[id |-> scopeId, user_id |-> s.userId,
                                      name |-> scopeAnalysis.scope]}
     /\ knowledge_entries' = knowledge_entries \cup
          {[id |-> entryId, user_id |-> s.userId, scope_id |-> scopeId, content |-> s.len]}
     /\ embeddings' = embeddings \cup
          EmbeddingInserts(entryId, s.userId, generateEmbeddings(s.len, s.mocked))
     /\ uuids' = entryId
     /\ reqs' = [reqs EXCEPT ![1] =
                   [NoReq EXCEPT !.pc = "done", !.userId = s.userId, !.reply = s.reply,
                                 !.scopeAnalysis = scopeAnalysis,
                                 !.scope = scopeAnalysis.scope, !.len = s.len,
                                 !.mocked = s.mocked,
                                 !.found = IF scope = NoId THEN "none" ELSE "row",
                                 !.scopeId = scopeId, !.entryId = entryId,
                                 !.status = 200]]
     /\ UNCHANGED <<del, subVars, kbVars>>

\* the knowledge base is filled by POSTs, then searched once: a search changes
\* no table, so the requests after a search would repeat those before it
KbNext ==
  \/ search = NoSearch /\ \E s \in KbSubmissions : Store(s)
  \/ search = NoSearch /\ Search

KbSpec == Init /\ [][KbNext]_vars

-----------------------------------------------------------------------------
(* process-knowledge: the fallback of extractInsights                      *)

\* the characters of a content: a letter, a blank, two sentence terminators
Characters == {"a", " ", ".", "!"}
Terminators == {".", "!", "?"}

\* content.split(/[.!?]+/), the characters from i on: cur is the piece being
\* read, inRun tells that the character before i was a terminator
RECURSIVE SplitFrom(_, _, _, _)
SplitFrom(content, i, cur, inRun) ==
  IF i > Len(content) THEN <<cur>>
  ELSE IF content[i] \in Terminators
    THEN (IF inRun THEN <<>> ELSE <<cur>>) \o SplitFrom(content, i + 1, <<>>, TRUE)
    ELSE SplitFrom(content, i + 1, Append(cur, content[i]), FALSE)

Split(content) == SplitFrom(content, 1, <<>>, FALSE)

\* String.prototype.trim
RECURSIVE Trim(_)
Trim(str) ==
  IF str = <<>> THEN str
  ELSE IF Head(str) = " " THEN Trim(Tail(str))
  ELSE IF str[Len(str)] = " " THEN Trim(SubSeq(str, 1, Len(str) - 1))
  ELSE str

\* the filter keeping every piece that is not the empty string
IsNotEmpty(str) == str # <<>>

\* s => s.trim().length > 0
IsSentence(str) == Len(Trim(str)) > 0

\* the object returned by the catch of extractInsights
FallbackInsights(content) ==
  LET sentences == SelectSeq(Split(content), IsSentence)
      first == Take(sentences, 3)
  IN [summary |-> <<Take(content, 200), "...">>,
      keyPoints |-> [i \in 1..Len(first) |-> Trim(first[i])],
      entities |-> <<>>,
      tags |-> <<>>,
      actionableInsights |-> <<>>]

\* extractInsights on a content for which the reply of the model does not parse
ExtractInsights ==
  /\ extracted.pc = "content"
  /\ extracted' = [extracted EXCEPT !.pc = "extracted",
                                     !.insights = FallbackInsights(extracted.content)]
  /\ UNCHANGED <<knVars, subVars, chunked, search, createReq, brainstorm, chat>>

\* extractInsights alone, on every content of up to MaxChars characters
ExtractInit ==
  /\ Started
  /\ extracted \in {[NoExtract EXCEPT !.pc = "content", !.content = c] :
                      c \in UNION {[1..n -> Characters] : n \in 0..MaxChars}}

ExtractNext == ExtractInsights

ExtractSpec == ExtractInit /\ [][ExtractNext]_vars

-----------------------------------------------------------------------------
(* ChatPage: handleSendMessage and the chat-rag call it awaits.  A handler  *)
(* runs up to its first await in one step, and the state it sets is the     *)
(* state the next event reads: the updates of an event are rendered before  *)
(* the next event is dispatched.                                            *)

\* what the input can hold: nothing, a blank, a text, a text between blanks
Inputs == {<<>>, <<" ">>, <<"h", "i">>, <<" ", "y", "o", " ">>}

Apology ==
  "I apologize, but I'm having trouble accessing your knowledge base right now. Please try your question again in a moment."

\* a handler that accepts every submit
NeverRefuses(inputMessage, isLoading) == FALSE

\* if (!inputMessage.trim() || isLoading) return
Refuses(inputMessage, isLoading) == Trim(inputMessage) = <<>> \/ isLoading

UserMessages(messages) == {i \in 1..Len(messages) : messages[i].role = "user"}

\* onChange of the input, which is disabled while isLoading
SetInputMessage ==
  /\ ~chat.isLoading
  /\ \E value \in Inputs :
       /\ value # chat.inputMessage
       /\ chat' = [chat EXCEPT !.inputMessage = value, !.last = "typed"]
  /\ UNCHANGED <<knVars, subVars, chunked, search, createReq, brainstorm, extracted>>

\* onSubmit of the form: handleSendMessage up to its await of generateAIResponse
HandleSendMessage ==
  /\ Cardinality(UserMessages(chat.messages)) < MaxSends
  /\ IF Refuses(chat.inputMessage, chat.isLoading)
       THEN chat' = [chat EXCEPT !.last = "refused"]
       ELSE chat' = [messages |-> Append(chat.messages,
                                         [role |-> "user", content |-> Trim(chat.inputMessage)]),
                     inputMessage |-> <<>>,
                     isLoading |-> TRUE,
                     inFlight |-> Append(chat.inFlight, Trim(chat.inputMessage)),
                     last |-> "accepted"]
  /\ UNCHANGED <<knVars, subVars, chunked, search, createReq, brainstorm, extracted>>

\* the invoke of chat-rag settles: handleSendMessage resumes in its try with
\* the reply, or in its catch with the error, and runs its finally
Settle ==
  /\ \E i \in DOMAIN chat.inFlight, outcome \in {"data", "error"} :
       chat' = [chat EXCEPT
                  !.messages = Append(@, [role |-> "assistant",
                                          content |-> IF outcome = "data" THEN "data.response"
                                                                          ELSE Apology]),
                  !.isLoading = FALSE,
                  !.inFlight = SubSeq(@, 1, i - 1) \o SubSeq(@, i + 1, Len(@)),
                  !.last = IF outcome = "data" THEN "resolved" ELSE "rejected"]
  /\ UNCHANGED <<knVars, subVars, chunked, search, createReq, brainstorm, extracted>>

ChatNext ==
  \/ SetInputMessage
  \/ HandleSendMessage
  \/ Settle

ChatSpec == Init /\ [][ChatNext]_vars

\* every chat-rag call in flight settles: the invoke resolves with the reply
\* of the function or with an error
ChatLiveSpec == ChatSpec /\ WF_vars(Settle)

-----------------------------------------------------------------------------
(* Properties of the subscription state machine                            *)

Row(e) == subscribers[e]

\* the instant a billing time string denotes
InstantOf(s) ==
  CASE s \in {"2025-08-01T02:00:00+02:00", "2025-08-01T00:00:00.000Z"} -> "Aug 1 2025 00:00 UTC"
    [] s \in {"2025-09-01T00:00:00Z", "2025-09-01T00:00:00.000Z"} -> "Sep 1 2025 00:00 UTC"
    [] OTHER -> "no instant"

\* the stored end date is the event's next billing time, null when it has none
EndMatches(end, data) ==
  IF data.next_billing_time = NoTime
    THEN end = NULL
    ELSE end # NULL /\ InstantOf(end) = InstantOf(data.next_billing_time)

\* the step answers a webhook of one of these types with 200
Answers(types) == resp'.op = WebhookOp /\ resp'.status = 200 /\ resp'.evt \in types

\* the payloads a webhook answered with resp' can have carried
Carried ==
  {data \in [type : {resp'.evt}, id : {resp'.sid}, email : {resp'.email},
             plan_id : PlanIds, next_billing_time : BillingTimes \cup {NoTime}] :
     data \in Events}

\* C1: a Subscriber row has subscribed=true only if the billing event processed
\* last for it is an ACTIVATED or RENEWED webhook, i.e. one has been processed
\* and no CANCELLED or SUSPENDED webhook for the row has been processed since.
C1_SubscribedOnlyAfterActivation ==
  \A e \in DOMAIN subscribers : Row(e).subscribed => ledger[e] = "on"

\* a row that is subscribed after a renewal, and a row cancelled after having been active
C1_Witness ==
  /\ resp.evt = RENEWED
  /\ \E e \in DOMAIN subscribers : Row(e).subscribed /\ ledger[e] = "on"
  /\ \E e \in DOMAIN subscribers : ~Row(e).subscribed /\ ledger[e] = "off"

\* C2: with a webhook id configured, a webhook changes a Subscriber row only
\* after the access token was fetched and the verification call reported
\* SUCCESS: when the token is not granted, the verification call fails or the
\* status is not SUCCESS, no Subscriber row changes.  (The claim also has these
\* paths answered 400; the first two are answered 200.)
C2_RejectsUnlessVerified ==
  [][resp'.op = WebhookOp =>
      \A trust \in TrustOutcomes \ {"no_webhook_id", "SUCCESS"}, data \in Carried :
        Webhook(trust, data) => subscribers' = subscribers]_subVars

\* C3: a Subscriber row becomes subscribed=true only when a row with
\* subscribed=false already exists for that email; no email goes from having
\* no row directly to an active row.
C3_PendingBeforeActive ==
  [][\A e \in Emails :
       (e \in DOMAIN subscribers' /\ subscribers'[e].subscribed)
         => (e \in DOMAIN subscribers)]_subVars

\* C4: every successful create-paypal-subscription call (authenticated user
\* with email, tier pro or premium, PayPal calls succeed, approve link present)
\* is answered 200 with the id of the subscription PayPal just created, and
\* leaves the user's row with subscribed=false, subscription_end=null and that
\* id, whatever the row held before.
C4_CreateStoresPending ==
  [][resp'.op = CreateOp =>
      \A auth \in {u \in Users : UserEmail(u) # NoEmail}, tier \in {"pro", "premium"},
         paypal \in {p \in PayPalOutcomes : PayPalSucceeds(p)} :
        (Authorized(auth, tier) /\ Create(auth, tier, paypal))
        => /\ resp'.status = 200
           /\ resp'.sid = paypalSubs + 1
           /\ UserEmail(auth) \in DOMAIN subscribers'
           /\ subscribers'[UserEmail(auth)].subscribed = FALSE
           /\ subscribers'[UserEmail(auth)].subscription_end = NULL
           /\ subscribers'[UserEmail(auth)].stripe_customer_id = resp'.sid]_subVars

\* a successful create for a user whose row was active: the active row is pending again
C4_Witness ==
  /\ resp.op = CreateOp /\ resp.status = 200
  /\ resp.email \in DOMAIN subscribers
  /\ ledger[resp.email] = "on"
  /\ ~Row(resp.email).subscribed
  /\ Row(resp.email).stripe_customer_id = resp.sid

\* C5: a processed ACTIVATED webhook that carries a subscriber email sets that
\* email's row to subscribed=true with the event's next billing time as
\* subscription_end, and subscription_tier is "Premium" exactly when the plan
\* id contains "premium" (of the sampled plan ids only zakerah-premium-monthly
\* does), otherwise "Pro".
C5_ActivatedSetsRow ==
  [][Answers({ACTIVATED}) =>
      \A data \in Carried :
        (data.email # NoEmail /\ handleSubscriptionActivated(data))
        => /\ data.email \in DOMAIN subscribers'
           /\ subscribers'[data.email].subscribed = TRUE
           /\ EndMatches(subscribers'[data.email].subscription_end, data)
           /\ subscribers'[data.email].subscription_tier =
                IF data.plan_id = PlanLegacyPremium THEN "Premium" ELSE "Pro"]_subVars

\* an activation with a premium plan has been processed for the email it carried
C5_Witness ==
  /\ resp.op = WebhookOp /\ resp.status = 200 /\ resp.evt = ACTIVATED
  /\ resp.email \in DOMAIN subscribers
  /\ Row(resp.email).subscribed
  /\ Row(resp.email).subscription_tier = "Premium"
  /\ Row(resp.email).subscription_end # NULL

\* the user whose create-paypal-subscription call made PayPal create subscription sid
SubscriberOf(sid) == UserEmail("u1")

Cleared(row) ==
  /\ row.subscribed = FALSE
  /\ row.subscription_tier = NULL
  /\ row.subscription_end = NULL

\* C6 as claimed: after a processed CANCELLED or SUSPENDED webhook for a
\* subscription, the row of the subscriber who created it has subscribed=false,
\* subscription_tier=null and subscription_end=null, also when the row was
\* re-created with another subscription id.
C6_ClearsSubscriberRow ==
  [][Answers({CANCELLED, SUSPENDED}) =>
      \A data \in Carried :
        (Accepted(data) /\ SubscriberOf(data.id) \in DOMAIN subscribers')
        => Cleared(subscribers'[SubscriberOf(data.id)])]_subVars

\* C6 amended: after a processed CANCELLED or SUSPENDED webhook for
\* subscription X, every row that stored X has subscribed=false,
\* subscription_tier=null and subscription_end=null and still stores X, whatever
\* it held before; every row that stores another id is unchanged.
C6_ClearsRowsOfSubscription ==
  [][Answers({CANCELLED, SUSPENDED}) =>
      \A data \in Carried :
        Accepted(data)
        => /\ DOMAIN subscribers' = DOMAIN subscribers
           /\ \A e \in DOMAIN subscribers :
                IF Row(e).stripe_customer_id = data.id
                  THEN /\ Cleared(subscribers'[e])
                       /\ subscribers'[e].stripe_customer_id = data.id
                  ELSE subscribers'[e] = Row(e)]_subVars

\* a cancellation processed for a row that stores the event's id, while the
\* other row stores another id and stays subscribed
C6_Witness ==
  /\ resp.op = WebhookOp /\ resp.status = 200 /\ resp.evt \in {CANCELLED, SUSPENDED}
  /\ \E e \in DOMAIN subscribers :
       Row(e).stripe_customer_id = resp.sid /\ ledger[e] = "off" /\ Cleared(Row(e))
  /\ \E e \in DOMAIN subscribers :
       Row(e).stripe_customer_id # resp.sid /\ Row(e).subscribed

\* C7: a processed RENEWED webhook for subscription X sets subscribed=true and
\* replaces subscription_end by the event's next billing time (null when it has
\* none) on every row that stores X, and leaves that row's subscription_tier
\* and stored id as they were.
C7_RenewedRefreshesEnd ==
  [][Answers({RENEWED}) =>
      \A data \in Carried :
        Accepted(data)
        => \A e \in DOMAIN subscribers :
             Row(e).stripe_customer_id = data.id
             => /\ e \in DOMAIN subscribers'
                /\ subscribers'[e].subscribed = TRUE
                /\ EndMatches(subscribers'[e].subscription_end, data)
                /\ subscribers'[e].subscription_tier = Row(e).subscription_tier
                /\ subscribers'[e].stripe_customer_id = data.id]_subVars

\* a renewal processed for a row that stores its id and had its tier cleared
C7_Witness ==
  /\ resp.op = WebhookOp /\ resp.status = 200 /\ resp.evt = RENEWED
  /\ \E e \in DOMAIN subscribers :
       /\ Row(e).stripe_customer_id = resp.sid
       /\ Row(e).subscribed
       /\ Row(e).subscription_end # NULL
       /\ Row(e).subscription_tier = NULL

\* C8: a PAYMENT.FAILED webhook, an event of an unhandled type and an ACTIVATED
\* event without a subscriber email, once let through by the trust check,
\* leave every Subscriber row unchanged and are acknowledged with status 200.
C8_NoStateChange ==
  [][(resp'.op = WebhookOp /\ resp'.email = NoEmail
         /\ resp'.evt \notin {CANCELLED, SUSPENDED, RENEWED}) =>
      \A data \in Carried :
        (/\ \/ data.type \notin {ACTIVATED, CANCELLED, SUSPENDED, RENEWED}
            \/ data.type = ACTIVATED /\ data.email = NoEmail
         /\ \E trust \in TrustOutcomes : ~Rejects(trust) /\ Webhook(trust, data))
        => subscribers' = subscribers /\ resp'.status = 200]_subVars

\* a payment failure acknowledged while the row of its subscription is subscribed
C8_Witness ==
  /\ resp.op = WebhookOp /\ resp.status = 200 /\ resp.evt = PAYMENT_FAILED
  /\ \E e \in DOMAIN subscribers : Row(e).stripe_customer_id = resp.sid /\ Row(e).subscribed

-----------------------------------------------------------------------------
(* Properties of the knowledge store                                       *)

ScopeRows(userId, name) ==
  {s \in knowledge_scopes : s.user_id = userId /\ s.name = name}

NoDuplicateScopes ==
  \A s, t \in knowledge_scopes : (s.user_id = t.user_id /\ s.name = t.name) => s = t

\* C9: when submissions are served one after another, a step adds a
\* knowledge_scopes row for (user_id, name) only when the table holds none, the
\* table never holds two rows with the same (user_id, name), and an entry is
\* stored under the id of the row of its submission's (user_id, scope name):
\* the existing row's id when the submission found one.
C9_SequentialScopeReuse ==
  [][/\ NoDuplicateScopes'
     /\ \A s \in knowledge_scopes' \ knowledge_scopes : ScopeRows(s.user_id, s.name) = {}
     /\ \A r \in 1..MaxReqs :
          (reqs[r].pc = "insertEntry" /\ reqs'[r].pc = "insertEmbeddings")
          => /\ \E e \in knowledge_entries' \ knowledge_entries :
                  /\ e.id = reqs'[r].entryId
                  /\ {e.scope_id} = {s.id : s \in ScopeRows(reqs[r].userId, reqs[r].scope)}
             /\ reqs[r].found = "row" => knowledge_scopes' = knowledge_scopes
                                          /\ reqs[r].scopeId \in
                                               {s.id : s \in ScopeRows(reqs[r].userId, reqs[r].scope)}
    ]_vars

\* two submissions of one user to one scope name have been stored: the second
\* found the row the first created, and both entries are under its id
C9_Witness ==
  \E r, q \in 1..MaxReqs :
    /\ r # q
    /\ reqs[r].status = 200 /\ reqs[q].status = 200
    /\ reqs[r].userId = reqs[q].userId /\ reqs[r].scope = reqs[q].scope
    /\ reqs[r].found = "none" /\ reqs[q].found = "row"
    /\ Cardinality(ScopeRows(reqs[r].userId, reqs[r].scope)) = 1
    /\ \E e, f \in knowledge_entries :
         e.id = reqs[r].entryId /\ f.id = reqs[q].entryId /\ e.scope_id = f.scope_id

\* the select of r returned no row and its scope insert has been answered by
\* the database (accepted, or refused by a constraint)
InsertedAfterNone(r) ==
  /\ reqs[r].found = "none"
  /\ reqs[r].pc # "insertScope"
  /\ reqs[r].error # "scope insert failed"

\* two first-time submissions of one user to one scope name that both read
\* 'no scope' and both went on to insert
Raced(r, q) ==
  /\ r # q
  /\ reqs[r].userId = reqs[q].userId /\ reqs[r].scope = reqs[q].scope
  /\ InsertedAfterNone(r) /\ InsertedAfterNone(q)

\* C10 as claimed: two concurrent first-time submissions by one user to one
\* new scope name that both read 'no scope' before either inserts end with two
\* knowledge_scopes rows for that (user_id, name).
C10_RaceLeavesTwoRows ==
  \A r, q \in 1..MaxReqs :
    Raced(r, q) => Cardinality(ScopeRows(reqs[r].userId, reqs[r].scope)) = 2

\* C10 amended: the table never holds two knowledge_scopes rows for one
\* (user_id, name), also when submissions are concurrent; of two submissions
\* that both read 'no scope' and both insert, at least one is refused by
\* UNIQUE(user_id, name) and answered 500, exactly one row exists, and a
\* submission that was not refused carries that row's id.
C10_RaceLeavesOneRow ==
  /\ NoDuplicateScopes
  /\ \A r, q \in 1..MaxReqs :
       Raced(r, q)
       => /\ Cardinality(ScopeRows(reqs[r].userId, reqs[r].scope)) = 1
          /\ \E x \in {r, q} :
               /\ reqs[x].error = "duplicate key value violates unique constraint"
               /\ reqs[x].status = 500
               /\ reqs[x].entryId = NoId
          /\ \A x \in {r, q} :
               reqs[x].error # "duplicate key value violates unique constraint"
               => {reqs[x].scopeId} = {s.id : s \in ScopeRows(reqs[x].userId, reqs[x].scope)}

\* both submissions of a race are answered: one stored its entry, the other
\* was refused by the constraint
C10_Witness ==
  \E r, q \in 1..MaxReqs :
    /\ Raced(r, q)
    /\ reqs[r].status = 200
    /\ reqs[q].status = 500
    /\ reqs[q].error = "duplicate key value violates unique constraint"
    /\ Cardinality(ScopeRows(reqs[r].userId, reqs[r].scope)) = 1

\* C11: in every reachable state each knowledge_entries row references, by
\* scope_id, a knowledge_scopes row that exists and has the entry's user_id.
C11_EntryScopeSameUser ==
  \A k \in knowledge_entries :
    \E s \in knowledge_scopes : s.id = k.scope_id /\ s.user_id = k.user_id

\* entries of two users are stored, each under its owner's scope, the two
\* scopes having the same name
C11_Witness ==
  \E k, m \in knowledge_entries :
    /\ k.user_id # m.user_id
    /\ \E s, t \in knowledge_scopes :
         /\ s.id = k.scope_id /\ t.id = m.scope_id
         /\ s.name = t.name /\ s.user_id = k.user_id /\ t.user_id = m.user_id

\* the owner of the entry a result row of the retriever points to
OwnersOf(row) == {k.user_id : k \in {m \in knowledge_entries : m.id = row.entry_id}}

\* what the database may answer to the three queries of a search: every row
\* similar, no row similar but every entry matching the keywords, or neither
Answers3 ==
  {[similar |-> embeddings, matching |-> knowledge_entries,
    vector |-> "ok", text |-> "ok", recent |-> "ok"],
   [similar |-> {}, matching |-> knowledge_entries,
    vector |-> "ok", text |-> "ok", recent |-> "ok"],
   [similar |-> {}, matching |-> {},
    vector |-> "ok", text |-> "ok", recent |-> "ok"]}

\* every row a search for userId returns, by whichever tier, belongs to userId
SearchStaysWithUser ==
  \A userId \in UserIds, query \in Queries, db \in Answers3 :
    LET found == searchKnowledgeBase(userId, query, db).results
    IN \A i \in 1..Len(found) : OwnersOf(found[i]) = {userId}

\* C12: a request carrying userId U reads, inserts and deletes only rows whose
\* user_id is U: the scope a POST finds and every row it inserts have user_id
\* U, every row a DELETE removes has user_id U (so a DELETE for another user's
\* entry removes neither the entry nor its embeddings rows), and every row the
\* retriever returns for U, from any of its three tiers, belongs to U.
C12_OnlyOwnRows ==
  [][/\ \A row \in (knowledge_scopes' \ knowledge_scopes)
                   \cup (knowledge_entries' \ knowledge_entries)
                   \cup (embeddings' \ embeddings) :
          \E r \in 1..MaxReqs : reqs'[r] # reqs[r] /\ row.user_id = reqs[r].userId
     /\ \A r \in 1..MaxReqs :
          (reqs[r].pc = "select" /\ reqs'[r].scopeId # NoId)
          => \E t \in knowledge_scopes :
               t.id = reqs'[r].scopeId /\ t.user_id = reqs[r].userId
     /\ \A row \in (knowledge_scopes \ knowledge_scopes')
                   \cup (knowledge_entries \ knowledge_entries')
                   \cup (embeddings \ embeddings') :
          del' # del /\ row.user_id = del.userId
     /\ SearchStaysWithUser
    ]_vars

\* a DELETE naming another user's entry was answered with success: the entry
\* and its embeddings rows are still stored, and the other user has rows too
C12_Witness ==
  /\ del.pc = "done" /\ del.status = 200
  /\ \E k \in knowledge_entries :
       /\ k.id = del.entryId /\ k.user_id # del.userId
       /\ \E e \in embeddings : e.entry_id = k.id
  /\ \E m \in knowledge_entries : m.user_id = del.userId
  /\ \E userId \in UserIds, query \in Queries, db \in Answers3 :
       Len(searchKnowledgeBase(userId, query, db).results) > 1

\* the number of characters of a chunk
Size(chunk) == chunk[2] - chunk[1]

\* C13: a content of N characters is split into ceil(N / 500) chunks; every
\* chunk but the last has exactly 500 characters, the last has between 1 and
\* 500, and the chunks follow one another from the first character of the
\* content to its last, so that joined in order they give the content back.
C13_ChunksCoverContent ==
  chunked.pc = "chunked" =>
    LET N == chunked.content
        chunks == chunked.chunks
        k == Len(chunks)
    IN /\ k = Chunks(N)
       /\ \A i \in 1..(k - 1) : Size(chunks[i]) = chunkSize
       /\ k > 0 => Size(chunks[k]) \in 1..chunkSize
       /\ k > 0 => chunks[1][1] = 0 /\ chunks[k][2] = N
       /\ \A i \in 1..(k - 1) : chunks[i + 1][1] = chunks[i][2]
       /\ k = 0 => N = 0

\* a content of 1001 characters was split into two chunks of 500 and one of 1
C13_Witness ==
  /\ chunked.pc = "chunked" /\ chunked.content = 2 * chunkSize + 1
  /\ Len(chunked.chunks) = 3
  /\ Size(chunked.chunks[1]) = chunkSize /\ Size(chunked.chunks[3]) = 1

\* the embeddings rows stored for an entry
RowsOfEntry(rows, entryId) == {e \in rows : e.entry_id = entryId}

\* C14: a POST that is answered with success for a content of N characters has
\* inserted exactly one knowledge_entries row and ceil(N / 500) embeddings
\* rows, whichever of the chunks' embedding calls failed: a failed call gives
\* its chunk a vector of 768 components and leaves the other chunks alone.
C14_OneEntryAllChunks ==
  [][\A r \in 1..MaxReqs :
       /\ (reqs[r].status # 200 /\ reqs'[r].status = 200) =>
            /\ reqs[r].pc = "insertEmbeddings" /\ reqs'[r].pc = "done"
            /\ knowledge_entries' = knowledge_entries
            /\ Cardinality({k \in knowledge_entries : k.id = reqs[r].entryId}) = 1
            /\ Cardinality(embeddings' \ embeddings) = Chunks(reqs[r].len)
            /\ embeddings' \ embeddings = RowsOfEntry(embeddings', reqs[r].entryId)
            /\ \A e \in embeddings' \ embeddings :
                 /\ e.embedding.length = EmbeddingLength
                 /\ e.embedding.by = "Math.random" <=> e.chunk_index \in reqs[r].mocked
       /\ (reqs[r].pc = "insertEntry" /\ reqs'[r].pc = "insertEmbeddings") =>
            /\ Cardinality(knowledge_entries' \ knowledge_entries) = 1
            /\ \A k \in knowledge_entries' \ knowledge_entries : k.id = reqs'[r].entryId
       /\ (reqs'[r] # reqs[r] /\ reqs[r].pc # "insertEntry") =>
            knowledge_entries' \ knowledge_entries = {}
    ]_vars

\* a POST of 501 characters whose first embedding call failed was answered
\* with success: its entry has two embeddings rows, the first with the
\* fallback vector and the second with the model's
C14_Witness ==
  \E r \in 1..MaxReqs :
    /\ reqs[r].pc = "done" /\ reqs[r].status = 200
    /\ reqs[r].len = chunkSize + 1 /\ reqs[r].mocked = {0}
    /\ Cardinality(RowsOfEntry(embeddings, reqs[r].entryId)) = 2
    /\ \E e \in embeddings :
         e.entry_id = reqs[r].entryId /\ e.chunk_index = 0 /\ e.embedding.by = "Math.random"
    /\ \E e \in embeddings :
         e.entry_id = reqs[r].entryId /\ e.chunk_index = 1 /\ e.embedding.by = "model"

\* C15: for every knowledge entry, the chunk_index values of its embeddings
\* rows are exactly 0 .. k-1, k being the number of those rows, and the row
\* with chunk_index i holds the i-th slice of 500 characters of the content.
C15_ChunkIndexesContiguous ==
  \A k \in knowledge_entries :
    LET rows == RowsOfEntry(embeddings, k.id)
    IN /\ {e.chunk_index : e \in rows} = 0..(Cardinality(rows) - 1)
       /\ \A e \in rows :
            /\ e.content_chunk[1] = e.chunk_index * chunkSize
            /\ e.content_chunk[2] = IF (e.chunk_index + 1) * chunkSize < k.content
                                      THEN (e.chunk_index + 1) * chunkSize
                                      ELSE k.content
            /\ e.content_chunk[1] < e.content_chunk[2]

\* an entry of 501 characters is stored with two embeddings rows: row 0 holds
\* the characters 0..499 and row 1 the character 500
C15_Witness ==
  \E k \in knowledge_entries :
    /\ k.content = chunkSize + 1
    /\ Cardinality(RowsOfEntry(embeddings, k.id)) = 2
    /\ \E e \in RowsOfEntry(embeddings, k.id) :
         e.chunk_index = 0 /\ e.content_chunk = <<0, chunkSize>>
    /\ \E e \in RowsOfEntry(embeddings, k.id) :
         e.chunk_index = 1 /\ e.content_chunk = <<chunkSize, chunkSize + 1>>

\* C16: when a DELETE {entryId, userId} sent by the owner of the entry is
\* answered with success, the knowledge_entries row and every embeddings row
\* with that entry_id are gone, and no step of the request removes or changes
\* a row of another entry.
C16_DeleteRemovesEntryAndChunks ==
  [][/\ (del.pc = "deleteEntry" /\ del'.pc = "done" /\ del'.status = 200
         /\ \E k \in knowledge_entries : k.id = del.entryId /\ k.user_id = del.userId)
        => /\ \A k \in knowledge_entries' : k.id # del.entryId
           /\ RowsOfEntry(embeddings', del.entryId) = {}
     /\ del' # del
        => /\ knowledge_entries' \subseteq knowledge_entries
           /\ embeddings' \subseteq embeddings
           /\ \A k \in knowledge_entries \ knowledge_entries' : k.id = del.entryId
           /\ \A e \in embeddings \ embeddings' : e.entry_id = del.entryId
    ]_vars

\* the DELETE the owner sent for an entry a POST had stored was answered with
\* success: the entry and its rows are gone, another entry and its rows are
\* still stored
C16_Witness ==
  /\ del.pc = "done" /\ del.status = 200
  /\ \A k \in knowledge_entries : k.id # del.entryId
  /\ RowsOfEntry(embeddings, del.entryId) = {}
  /\ \E r \in 1..MaxReqs : reqs[r].entryId = del.entryId /\ reqs[r].status = 200
                             /\ reqs[r].userId = del.userId
  /\ \E k \in knowledge_entries : RowsOfEntry(embeddings, k.id) # {}

\* the messages of the errors the three inserts of storeKnowledge return
StorageErrors ==
  [insertScope |-> {"scope insert failed",
                    "duplicate key value violates unique constraint"},
   insertEntry |-> {"entry insert failed", "violates foreign key constraint"},
   insertEmbeddings |-> {"embeddings insert failed", "violates foreign key constraint"}]

\* C17: in storeKnowledge a failed scope insert, entry insert or embeddings
\* insert ends the call at that step: the failing step writes no row, the
\* request is answered 500 with the message of the storage error and never
\* with success, and the call attempts no further insert.
C17_InsertFailureAborts ==
  [][\A r \in 1..MaxReqs :
       /\ \A step \in DOMAIN StorageErrors :
            (reqs[r].pc = step /\ reqs'[r].pc = "done" /\ reqs'[r].status # 200)
            => /\ reqs'[r].status = 500
               /\ reqs'[r].error \in StorageErrors[step]
               /\ knowledge_scopes' = knowledge_scopes
               /\ knowledge_entries' = knowledge_entries
               /\ embeddings' = embeddings
       /\ \A step \in DOMAIN StorageErrors :
            (reqs[r].pc = step /\ reqs'[r] # reqs[r]
             /\ knowledge_scopes' = knowledge_scopes
             /\ knowledge_entries' = knowledge_entries
             /\ embeddings' = embeddings)
            => reqs'[r].pc = "done" /\ reqs'[r].status = 500
       /\ (reqs[r].pc = "done" /\ reqs'[r] # reqs[r])
            => /\ reqs'[r].entryId = NoId /\ reqs'[r].scopeId = NoId
               /\ knowledge_scopes' = knowledge_scopes
               /\ knowledge_entries' = knowledge_entries
               /\ embeddings' = embeddings
    ]_vars

\* the embeddings insert of a request failed after its entry was stored: the
\* request was answered 500 with the message, and the entry has no rows
C17_Witness ==
  \E r \in 1..MaxReqs :
    /\ reqs[r].pc = "done" /\ reqs[r].status = 500
    /\ reqs[r].error = "embeddings insert failed"
    /\ \E k \in knowledge_entries : k.id = reqs[r].entryId
    /\ RowsOfEntry(embeddings, reqs[r].entryId) = {}

\* C18: when the reply of the model does not parse as JSON, the classifier
\* returns exactly scope "General Knowledge", confidence 0.5 and the fixed
\* reasoning; when the call to the model fails, no fallback takes its place:
\* the request is answered 500 and writes no scope, entry or embeddings row.
C18_FallbackOnParseErrorOnly ==
  [][\A r \in 1..MaxReqs :
       /\ (reqs'[r] # reqs[r] /\ reqs'[r].reply = "unparseable")
            => /\ reqs'[r].scopeAnalysis =
                    [scope |-> "General Knowledge", confidence |-> "0.5",
                     reasoning |-> "AI analysis failed, using default category"]
               /\ reqs'[r].pc # "done" => reqs'[r].scope = "General Knowledge"
       /\ (reqs'[r] # reqs[r] /\ reqs'[r].reply = "network error")
            => /\ reqs'[r].pc = "done" /\ reqs'[r].status = 500
               /\ reqs'[r].scopeAnalysis = "none"
               /\ reqs'[r].scopeId = NoId /\ reqs'[r].entryId = NoId
               /\ knowledge_scopes' = knowledge_scopes
               /\ knowledge_entries' = knowledge_entries
               /\ embeddings' = embeddings
       /\ reqs[r].reply = "network error" => reqs[r].pc = "done" /\ reqs[r].status = 500
    ]_vars

\* a request whose classifier call failed was answered 500, after a request of
\* the same user whose reply did not parse had stored its entry under the
\* scope "General Knowledge"
C18_Witness ==
  \E r \in 1..MaxReqs :
    /\ reqs[r].reply = "network error" /\ reqs[r].pc = "done" /\ reqs[r].status = 500
    /\ \E t \in knowledge_scopes :
         /\ t.user_id = reqs[r].userId /\ t.name = "General Knowledge"
         /\ \E k \in knowledge_entries : k.scope_id = t.id
    /\ \A s \in Submissions :
         (s.userId = reqs[r].userId /\ analyzeContentScope(s.reply).scope = "General Knowledge")
         => s.reply \in {"unparseable", "network error"}

\* the entries stored for a user
EntriesOf(userId) == {k \in knowledge_entries : k.user_id = userId}

\* C19: when the vector search of tier 1 returns 5 rows or more, neither the
\* keyword query of tier 2 nor the recent-entries query of tier 3 is issued,
\* and the result is exactly the rows of tier 1 in the order returned.
C19_EnoughVectorRowsOnly ==
  Len(search.tier1) >= 5 =>
    /\ search.issued = <<"match_knowledge_embeddings">>
    /\ search.results = search.tier1

\* a search whose vector search returned 6 rows, for a query with keywords
\* that match entries of the user: the 6 rows are the result
C19_Witness ==
  /\ Len(search.tier1) = 6 /\ search.results = search.tier1
  /\ SearchTerms(search.query) # <<>>
  /\ search.db.text = "ok"
  /\ \E k \in search.db.matching : k.user_id = search.userId

\* the rows are the user's most recent entries, newest first, each with the
\* similarity 0.2
RecentOf(userId, rows) ==
  /\ Len(rows) <= 8
  /\ \A i \in 1..Len(rows) :
       /\ rows[i].similarity = "0.2"
       /\ \E k \in EntriesOf(userId) : k.id = rows[i].entry_id
       /\ \A j \in (i + 1)..Len(rows) : rows[i].entry_id > rows[j].entry_id
       /\ \A k \in EntriesOf(userId) :
            k.id > rows[i].entry_id => \E j \in 1..(i - 1) : rows[j].entry_id = k.id

\* C20 as claimed: when tier 1 returns no row and the user has at least one
\* stored entry, the result is produced by tier 3: at most 8 rows, in
\* descending order of creation, each with the similarity 0.2.
C20_EmptyVectorGivesRecent ==
  (search.userId # "" /\ search.tier1 = <<>> /\ EntriesOf(search.userId) # {})
  => /\ "recent entries" \in {search.issued[i] : i \in 1..Len(search.issued)}
     /\ search.results # <<>>
     /\ RecentOf(search.userId, search.results)

\* C20: when tier 1 returns no row and tier 2 adds none, the recent-entries
\* query of tier 3 is issued, and when it returns the user's entries the result
\* is the most recent of them: 8 at most, in descending order of creation,
\* each with the similarity 0.2; when tier 2 returns rows, they are the
\* result, each with the similarity 0.3, and tier 3 is not issued.
C20_EmptyTiersGiveRecent ==
  (search.userId # "" /\ search.tier1 = <<>>)
  => /\ search.tier2 = <<>>
          => /\ search.issued[Len(search.issued)] = "recent entries"
             /\ (search.db.recent = "ok" /\ EntriesOf(search.userId) # {})
                  => /\ search.results # <<>>
                     /\ RecentOf(search.userId, search.results)
                     /\ Len(search.results) = 8 \/ Len(search.results) = Cardinality(EntriesOf(search.userId))
     /\ search.tier2 # <<>>
          => /\ search.results = search.tier2
             /\ \A i \in 1..Len(search.results) : search.results[i].similarity = "0.3"
             /\ \A i \in 1..Len(search.issued) : search.issued[i] # "recent entries"

\* a user with 9 entries searched, tier 1 and tier 2 returned no row: the
\* result is the 8 newest entries
C20_Witness ==
  /\ search.userId # "" /\ search.tier1 = <<>> /\ search.tier2 = <<>>
  /\ Cardinality(EntriesOf(search.userId)) = 9
  /\ Len(search.results) = 8
  /\ search.results[1].similarity = "0.2"
  /\ \A k \in EntriesOf(search.userId) : k.id <= search.results[1].entry_id

\* the entries of the user that the keyword query of a search can return
Matched(userId, matching) ==
  {k \in matching : k.user_id = userId /\ ScopeNamesOf(k) # {}}

\* C21: when tier 2 runs (tier 1 returned fewer than 5 rows and the query has
\* a word longer than 2 characters), its rows are appended after the rows of
\* tier 1 without re-sorting, each with the similarity 0.3, and rows are added
\* until the combined count reaches match_count, the count asked of tier 1.
C21_TextRowsFillToMatchCount ==
  (search.userId # "" /\ search.db.text = "ok"
   /\ Len(search.tier1) < 5 /\ SearchTerms(search.query) # <<>>)
  => LET available == Cardinality(Matched(search.userId, search.db.matching))
         room == match_count - Len(search.tier1)
     IN /\ search.tier2 # <<>> => search.results = search.tier1 \o search.tier2
        /\ \A i \in 1..Len(search.tier2) : search.tier2[i].similarity = "0.3"
        /\ Len(search.tier2) = IF available < room THEN available ELSE room

\* C22: generateRAGResponse gives confidence 0.8 when the generation succeeds
\* with rows retrieved and 0.3 when it succeeds with none; when the generation
\* fails it does not throw: with no row retrieved it returns the fixed
\* "couldn't find relevant information" message and 0.1, with rows retrieved
\* the fixed "trouble processing" message and 0.2.
C22_ConfidenceByOutcome ==
  search.userId # "" =>
    LET none == search.results = <<>>
        ok == search.generation = "text"
    IN /\ (ok /\ ~none) => search.response.confidence = "0.8"
       /\ (ok /\ none) => search.response.confidence = "0.3"
       /\ ok => search.response.content = "response.text()"
       /\ (~ok /\ none) => search.response = [content |-> NothingFound, confidence |-> "0.1"]
       /\ (~ok /\ ~none) => search.response = [content |-> TroubleProcessing, confidence |-> "0.2"]

\* the generation failed for a search that had retrieved rows: the answer is
\* the "trouble processing" message with 0.2
C22_Witness ==
  /\ search.generation = "error" /\ Len(search.results) > 0
  /\ search.response.confidence = "0.2"

\* C23: a chat-rag request of a user with no stored entry is answered with the
\* fixed "couldn't find relevant information" message and confidence 0.1.
C23_NoEntriesNothingFound ==
  (search.userId # "" /\ EntriesOf(search.userId) = {})
  => search.response = [content |-> NothingFound, confidence |-> "0.1"]

\* C24: a create-paypal-subscription request without Authorization header,
\* with a token the auth service rejects, of a user without email, or for a
\* tier other than pro and premium is answered 500; no PayPal call is made for
\* it and no subscribers row is written.
C24_RefusedBeforePayPal ==
  [][(createReq' # createReq \/ resp' # resp) =>
       LET refused == \/ createReq'.auth \in {"no_header", "rejected"}
                      \/ UserEmail(createReq'.auth) = NoEmail
                      \/ createReq'.tier \notin {"pro", "premium"}
       IN refused => /\ resp'.op = CreateOp /\ resp'.status = 500
                     /\ createReq'.calls = <<>>
                     /\ subscribers' = subscribers
                     /\ paypalSubs' = paypalSubs
    ]_vars

\* a request of u1 for the tier gold was answered 500 with no PayPal call,
\* after an earlier request had stored the row of u1, which is still pending
C24_Witness ==
  /\ createReq.auth = "u1" /\ createReq.tier = "gold"
  /\ resp.op = CreateOp /\ resp.status = 500
  /\ createReq.calls = <<>>
  /\ UserEmail("u1") \in DOMAIN subscribers
  /\ ~subscribers[UserEmail("u1")].subscribed

\* C25: generate-brainstorming answers {ideas: [], message} without calling
\* the generative model whenever the user has no stored knowledge entry, also
\* when the user has scopes whose entries were all deleted.
C25_NoEntriesNoModelCall ==
  (brainstorm.userId # "" /\ EntriesOf(brainstorm.userId) = {})
  => /\ ~brainstorm.modelCalled
     /\ brainstorm.answer = "ideas: [], message"

\* the sentences of a content: the longest stretches without a terminator
\* that hold a character other than a blank, as pairs of positions
SentenceSpans(content) ==
  {span \in (1..Len(content)) \X (1..Len(content)) :
     /\ span[1] <= span[2]
     /\ \A i \in span[1]..span[2] : content[i] \notin Terminators
     /\ \E i \in span[1]..span[2] : content[i] # " "
     /\ span[1] = 1 \/ content[span[1] - 1] \in Terminators
     /\ span[2] = Len(content) \/ content[span[2] + 1] \in Terminators}

\* C26: when the reply does not parse, keyPoints holds the first min(3, n)
\* non-empty sentences of the content, in order, n being their number, so that
\* a content of fewer than 3 sentences gets one key point per sentence;
\* entities, tags and actionableInsights are empty.
C26_KeyPointsAreFirstSentences ==
  extracted.pc = "extracted" =>
    LET content == extracted.content
        spans == SentenceSpans(content)
        n == Cardinality(spans)
        keyPoints == extracted.insights.keyPoints
    IN /\ Len(keyPoints) = IF n < 3 THEN n ELSE 3
       /\ \A k \in 1..Len(keyPoints) :
            \E span \in spans :
              /\ Cardinality({other \in spans : other[1] < span[1]}) = k - 1
              /\ \E from \in span[1]..span[2], to \in span[1]..span[2] :
                   /\ keyPoints[k] = SubSeq(content, from, to)
                   /\ content[from] # " " /\ content[to] # " "
                   /\ \A i \in (span[1]..(from - 1)) \cup ((to + 1)..span[2]) : content[i] = " "
       /\ extracted.insights.entities = <<>>
       /\ extracted.insights.tags = <<>>
       /\ extracted.insights.actionableInsights = <<>>

\* the content "a. .!a" has two non-empty sentences and got two key points
C26_Witness ==
  /\ extracted.pc = "extracted"
  /\ extracted.content = <<"a", ".", " ", ".", "!", "a">>
  /\ extracted.insights.keyPoints = << <<"a">>, <<"a">> >>

\* C27: every row of the subscribers table with subscribed = true has a
\* subscription_tier that is not null, also after a CANCELLED webhook followed
\* by a RENEWED webhook for the same subscription id.
C27_SubscribedHasTier ==
  \A e \in DOMAIN subscribers :
    subscribers[e].subscribed = TRUE => subscribers[e].subscription_tier # NULL

\* C28: a CANCELLED, SUSPENDED or RENEWED webhook for subscription id X
\* changes only rows of the subscribers table that store X as their provider
\* subscription id, and adds or removes none; a webhook for an id that a
\* later create-paypal-subscription has replaced changes nothing.
C28_OnlyRowsOfTheId ==
  [][(resp'.op = WebhookOp /\ resp'.evt \in {CANCELLED, SUSPENDED, RENEWED}) =>
       /\ DOMAIN subscribers' = DOMAIN subscribers
       /\ \A e \in DOMAIN subscribers :
            subscribers[e].stripe_customer_id # resp'.sid =>
              subscribers'[e] = subscribers[e]
       /\ RowsOf(resp'.sid) = {} => subscribers' = subscribers]_vars

\* a CANCELLED webhook for subscription 1 was processed when no row stores it,
\* and a row storing subscription 2 is still subscribed with its tier
C28_Witness ==
  /\ resp.op = WebhookOp /\ resp.status = 200
  /\ resp.evt = CANCELLED /\ resp.sid = 1
  /\ \E e \in DOMAIN subscribers :
       /\ subscribers[e].stripe_customer_id = 2
       /\ subscribers[e].subscribed = TRUE
       /\ subscribers[e].subscription_tier # NULL
  /\ RowsOf(1) = {}

\* C29: once every process-knowledge POST and DELETE request has been
\* answered, also those that failed part-way, every knowledge_entries row has
\* exactly one embeddings row per chunk of 500 characters of its content.
C29_EntriesKeepTheirEmbeddings ==
  (/\ \A r \in 1..MaxReqs : reqs[r].pc \in {"idle", "done"}
   /\ del.pc \in {"idle", "done"})
  => \A k \in knowledge_entries :
       Cardinality(RowsOfEntry(embeddings, k.id)) = Chunks(k.content)

\* the transcript after the welcome message: user and assistant messages
\* alternate, starting with a user message
Alternates(messages) ==
  /\ messages[1] = NoChat.messages[1]
  /\ \A i \in 2..Len(messages) :
       messages[i].role = IF i % 2 = 0 THEN "user" ELSE "assistant"

\* a submit handled while isLoading or with a blank input changes nothing
RefusedSubmitDoesNothing ==
  /\ chat'.last = "refused" =>
       /\ chat'.messages = chat.messages
       /\ chat'.inputMessage = chat.inputMessage
       /\ chat'.isLoading = chat.isLoading
       /\ chat'.inFlight = chat.inFlight
  /\ (chat'.last = "accepted" /\ chat' # chat) =>
       /\ ~chat.isLoading
       /\ Trim(chat.inputMessage) # <<>>
       /\ chat'.messages = Append(chat.messages,
                                  [role |-> "user", content |-> Trim(chat.inputMessage)])

\* C30: handleSendMessage does nothing while isLoading is true or the input
\* is blank, so at most one chat-rag call is in flight; every accepted user
\* message is followed in the transcript by exactly one assistant message (the
\* reply or the apology) before the next user message, the last user message
\* lacking its answer only while its call is in flight; isLoading is true
\* exactly while a call is in flight, and becomes false again.
C30_OneAnswerPerMessage ==
  /\ [](/\ Len(chat.inFlight) <= 1
        /\ Alternates(chat.messages)
        /\ chat.isLoading <=> chat.inFlight # <<>>
        /\ chat.messages[Len(chat.messages)].role = "user" <=> chat.inFlight # <<>>
        /\ \A i \in 1..Len(chat.messages) :
             chat.messages[i].role = "assistant" =>
               chat.messages[i].content \in {"welcome", "data.response", Apology})
  /\ [][RefusedSubmitDoesNothing]_vars
  /\ (chat.isLoading ~> ~chat.isLoading)

\* a submit was refused while the call for the second message was in flight,
\* the first message having been answered with the apology
C30_Witness ==
  /\ chat.last = "refused"
  /\ chat.isLoading
  /\ Len(chat.messages) = 4
  /\ chat.messages[3].content = Apology
  /\ Len(chat.inFlight) = 1

====
